---- MODULE Spec2Model ----
(***************************************************************************)
(* Model of the participant selector: the ImageProcessor component (grid   *)
(* detection, random draws without repetition, reset, canvas overlay) and  *)
(* the helper groupClosePoints.                                            *)
(*                                                                         *)
(* React state is modelled by one variable per useState cell.  A handler   *)
(* reads the values of the render it was created in (its closure) and      *)
(* queues updates that are applied together when it returns; a render      *)
(* commits before the next user event is dispatched, so a click handler    *)
(* always closes over the committed state, while the image effect and the  *)
(* image's onload handler keep the closure of the render that made them.   *)
(***************************************************************************)
EXTENDS Integers, Sequences, FiniteSets, TLC

VARIABLES
    imageUrl,          \* prop of ImageProcessor: index into Pictures, 0 = no image yet
    loading,           \* the <img> element has a load event outstanding (complete = false)
    effect,            \* closure of the pending useEffect([imageUrl]) run, or NoClosure
    onload,            \* closure held by imageRef.current.onload, or NoClosure
    gridCells,         \* useState<GridCell[]>
    selectedCells,     \* useState<Set<number>>
    currentSelection,  \* useState<number | null>
    isProcessing,      \* useState(false)
    debugInfo,         \* useState<string>: the messages appended by addDebugInfo
    canvas,            \* the outlines and labels last painted on the canvas
    lastOp,            \* history: the operation that produced this state and its result
    drawnSinceReset,   \* history: indices returned by successful draws since the last reset
    fresh,             \* history: the cell list was published with nothing selected, no reset since
    points,            \* groupClosePoints: input
    threshold,         \* groupClosePoints: proximity threshold
    grouped,           \* groupClosePoints(points, threshold)
    regrouped,         \* groupClosePoints(grouped, threshold)
    phase,             \* position of the grouping run
    imgWidth,          \* detectEdges: width
    imgHeight,         \* detectEdges: height
    imgData,           \* detectEdges: imageData.data, one <<r, g, b, a>> per pixel
    horizontalEdges,   \* detectEdges: the Set of rows recorded as edges
    verticalEdges,     \* detectEdges: the Set of columns recorded as edges
    hLines,            \* detectEdges: groupedHEdges
    vLines,            \* detectEdges: groupedVEdges
    builtCells,        \* detectEdges: the cells it returns
    stage,             \* position of the detection run
    queue,             \* state updates queued by handlers and not yet applied by a render
    batchDraws,        \* history: indices chosen by the draws handled since the last render
    image,             \* ImageUploader: useState image, the data URL handed to ImageProcessor
    isDragging,        \* ImageUploader: useState isDragging
    error,             \* ImageUploader: useState error
    reading,           \* FileReaders whose onload has not run yet (positions in submitted)
    submitted,         \* history: the files handed to readAsDataURL, in submission order
    lastUpload         \* history: the last uploader handler and what it was given

vars == <<imageUrl, loading, effect, onload, gridCells, selectedCells,
          currentSelection, isProcessing, debugInfo, canvas, lastOp,
          drawnSinceReset, fresh, points, threshold, grouped, regrouped, phase,
          imgWidth, imgHeight, imgData, horizontalEdges, verticalEdges,
          hLines, vLines, builtCells, stage, queue, batchDraws,
          image, isDragging, error, reading, submitted, lastUpload>>

uiVars == <<imageUrl, loading, effect, onload, gridCells, selectedCells,
            currentSelection, isProcessing, debugInfo, canvas, lastOp,
            drawnSinceReset, fresh>>

groupVars == <<points, threshold, grouped, regrouped, phase>>

batchVars == <<queue, batchDraws>>

uploadVars == <<image, isDragging, error, reading, submitted, lastUpload>>

detectVars == <<imgWidth, imgHeight, imgData, horizontalEdges, verticalEdges,
                hLines, vLines, builtCells, stage>>

-----------------------------------------------------------------------------
(* Bounds *)

\* debugInfo holds at most this many messages; a step that would exceed it is not taken
MaxLog == 18

\* groupClosePoints inputs: coordinates 0..MaxCoord, at most MaxPoints of them,
\* thresholds 0..MaxThreshold
MaxCoord == 7
MaxPoints == 4
MaxThreshold == 4

\* pixel buffers of the edge scan: any contents up to MaxPixels pixels,
\* one colour throughout up to MaxUniformDim x MaxUniformDim
MaxPixels == 9
MaxUniformDim == 5

\* cell construction: at most MaxLines grouped lines in each direction
MaxLines == 3

\* at most MaxPending click handlers run before a render applies their updates
MaxPending == 2

\* at most MaxSubmissions image files are handed to a FileReader
MaxSubmissions == 3

-----------------------------------------------------------------------------
(* Program constants *)

Null == -1                  \* null of useState<number | null>(null)
EdgeProximity == 10         \* groupClosePoints(hEdges, 10)
MinCellSize == 50           \* cell.width > 50 && cell.height > 50
MaxCellFractionNum == 9     \* cell.width < width * 0.9
MaxCellFractionDen == 10
DiffThreshold == 100        \* diff > 100
LineFractionNum == 3        \* edgeStrength > width * 0.3
LineFractionDen == 10

NoClosure == [gridCells |-> <<>>, selectedCells |-> {}, currentSelection |-> Null,
              bound |-> FALSE]

\* The values a handler created in the current render closes over.
Closure == [gridCells |-> gridCells, selectedCells |-> selectedCells,
            currentSelection |-> currentSelection, bound |-> TRUE]

-----------------------------------------------------------------------------
(* groupClosePoints *)

\* Math.round of sum / n for sum >= 0, n > 0: halves round up
Round(sum, n) == (2 * sum + n) \div (2 * n)

RECURSIVE Sum(_)
Sum(s) == IF s = <<>> THEN 0 ELSE Head(s) + Sum(Tail(s))

\* lastPoint = lastGroup[lastGroup.length - 1]
lastPoint_first(lastGroup) == lastGroup[1]
lastPoint(lastGroup) == lastGroup[Len(lastGroup)]

\* points[i] - lastPoint < threshold
isClose_inclusive(point, last, t) == point - last <= t
isClose(point, last, t) == point - last < t

\* the for loop of groupClosePoints from index i (1-based) on
RECURSIVE groupLoop(_, _, _, _)
groupLoop(pts, t, i, groups) ==
    IF i > Len(pts) THEN groups
    ELSE LET n         == Len(groups)
             lastGroup == groups[n]
         IN  IF isClose(pts[i], lastPoint(lastGroup), t)
             THEN groupLoop(pts, t, i + 1,
                            [groups EXCEPT ![n] = Append(lastGroup, pts[i])])
             ELSE groupLoop(pts, t, i + 1, Append(groups, <<pts[i]>>))

\* groups.map(group => Math.round(sum / group.length))
groupMean_offByOne(group) == Round(Sum(group), Len(group) + 1)
groupMean(group) == Round(Sum(group), Len(group))

\* the array `groups` when the loop of groupClosePoints has ended
closeGroups(pts, t) ==
    IF Len(pts) = 0 THEN <<>> ELSE groupLoop(pts, t, 2, << <<pts[1]>> >>)

groupClosePoints(pts, t) ==
    IF Len(pts) = 0 THEN <<>>
    ELSE LET groups == groupLoop(pts, t, 2, << <<pts[1]>> >>)
         IN  [g \in 1..Len(groups) |-> groupMean(groups[g])]

-----------------------------------------------------------------------------
(* detectEdges: the edge scan *)

Abs(n) == IF n < 0 THEN -n ELSE n

\* data[i] of the RGBA byte array
channel(data, i) == data[(i \div 4) + 1][(i % 4) + 1]

\* the sum of the absolute differences of the three colour channels
colourDiff(data, aIdx, bIdx) ==
    Abs(channel(data, aIdx) - channel(data, bIdx))
    + Abs(channel(data, aIdx + 1) - channel(data, bIdx + 1))
    + Abs(channel(data, aIdx + 2) - channel(data, bIdx + 2))

\* if (diff > 100)
isEdgePixel_inverted(diff) == diff < DiffThreshold
isEdgePixel(diff) == diff > DiffThreshold

\* edgeStrength > width * 0.3 (resp. height * 0.3)
isGridLine(edgeStrength, extent) ==
    edgeStrength * LineFractionDen > extent * LineFractionNum

\* the first pair of loops: rows y whose pixels above and below differ
scanHorizontal_forward(data, width, height) ==
    {y \in 0..(height - 2) :
        isGridLine(Cardinality({x \in 0..(width - 1) :
                       isEdgePixel(colourDiff(data, (y * width + x) * 4,
                                                    ((y + 1) * width + x) * 4))}),
                   width)}
scanHorizontal(data, width, height) ==
    {y \in 1..(height - 2) :
        isGridLine(Cardinality({x \in 0..(width - 1) :
                       isEdgePixel(colourDiff(data, ((y - 1) * width + x) * 4,
                                                    ((y + 1) * width + x) * 4))}),
                   width)}

\* the second pair of loops: columns x whose pixels left and right differ
scanVertical(data, width, height) ==
    {x \in 1..(width - 2) :
        isGridLine(Cardinality({y \in 0..(height - 1) :
                       isEdgePixel(colourDiff(data, (y * width + (x - 1)) * 4,
                                                    (y * width + (x + 1)) * 4))}),
                   height)}

\* Array.from(set).sort((a, b) => a - b)
RECURSIVE sortedArray(_)
sortedArray(set) ==
    IF set = {} THEN <<>>
    ELSE LET least == CHOOSE a \in set : \A b \in set : a <= b
         IN  <<least>> \o sortedArray(set \ {least})

-----------------------------------------------------------------------------
(* detectEdges: from the sorted edge arrays on *)

\* Pictures the user may upload, each given by what the edge scan of
\* detectEdges finds in it: the image size and the sorted rows and columns
\* recorded as edges.
Pictures == <<
    [width |-> 400, height |-> 300, hEdges |-> <<>>, vEdges |-> <<>>],
    [width |-> 400, height |-> 300, hEdges |-> <<100, 101, 200>>,
                                    vEdges |-> <<130, 270>>],
    [width |-> 400, height |-> 300, hEdges |-> <<50, 150>>,
                                    vEdges |-> <<50, 150, 250>>],
    [width |-> 400, height |-> 300, hEdges |-> <<40, 140, 240>>,
                                    vEdges |-> <<100, 200>>],
    [width |-> 400, height |-> 300, hEdges |-> <<20, 120>>,
                                    vEdges |-> <<10, 110, 210, 310>>] >>

\* the size filter: too small or too large cells are dropped
cellAccepted_inclusive(cell, width, height) ==
    /\ cell.width >= MinCellSize
    /\ cell.height >= MinCellSize
    /\ cell.width * MaxCellFractionDen <= width * MaxCellFractionNum
    /\ cell.height * MaxCellFractionDen <= height * MaxCellFractionNum
cellAccepted(cell, width, height) ==
    /\ cell.width > MinCellSize
    /\ cell.height > MinCellSize
    /\ cell.width * MaxCellFractionDen < width * MaxCellFractionNum
    /\ cell.height * MaxCellFractionDen < height * MaxCellFractionNum

\* the nested loops over adjacent line pairs, rows outermost
createCells_columnMajor(groupedHEdges, groupedVEdges, width, height) ==
    LET nh == Len(groupedHEdges) - 1
        nv == Len(groupedVEdges) - 1
    IN  IF nh < 1 \/ nv < 1 THEN <<>>
        ELSE LET candidates ==
                   [k \in 1..(nh * nv) |->
                      LET j == ((k - 1) \div nh) + 1
                          i == ((k - 1) % nh) + 1
                      IN  [x |-> groupedVEdges[j],
                           y |-> groupedHEdges[i],
                           width |-> groupedVEdges[j + 1] - groupedVEdges[j],
                           height |-> groupedHEdges[i + 1] - groupedHEdges[i],
                           isParticipant |-> TRUE]]
                 keep(cell) == cellAccepted(cell, width, height)
             IN  SelectSeq(candidates, keep)
createCells(groupedHEdges, groupedVEdges, width, height) ==
    LET nh == Len(groupedHEdges) - 1
        nv == Len(groupedVEdges) - 1
    IN  IF nh < 1 \/ nv < 1 THEN <<>>
        ELSE LET candidates ==
                   [k \in 1..(nh * nv) |->
                      LET i == ((k - 1) \div nv) + 1
                          j == ((k - 1) % nv) + 1
                      IN  [x |-> groupedVEdges[j],
                           y |-> groupedHEdges[i],
                           width |-> groupedVEdges[j + 1] - groupedVEdges[j],
                           height |-> groupedHEdges[i + 1] - groupedHEdges[i],
                           isParticipant |-> TRUE]]
                 keep(cell) == cellAccepted(cell, width, height)
             IN  SelectSeq(candidates, keep)

detectEdges(picture) ==
    LET groupedHEdges == groupClosePoints(picture.hEdges, EdgeProximity)
        groupedVEdges == groupClosePoints(picture.vEdges, EdgeProximity)
    IN  [cells |-> createCells(groupedHEdges, groupedVEdges,
                               picture.width, picture.height),
         log |-> << <<"Found edges", Len(picture.hEdges), Len(picture.vEdges)>>,
                    <<"Grouped into lines", Len(groupedHEdges), Len(groupedVEdges)>> >>]

-----------------------------------------------------------------------------
(* Selection and drawing *)

\* gridCells.map((_, index) => index).filter(index => !selectedCells.has(index))
isAvailable_all(index, selected) == TRUE
isAvailable(index, selected) == index \notin selected

availableCells_oneBased(cells, selected) ==
    LET indices == [k \in 1..Len(cells) |-> k]
        keep(index) == isAvailable(index, selected)
    IN  SelectSeq(indices, keep)
availableCells(cells, selected) ==
    LET indices == [k \in 1..Len(cells) |-> k - 1]
        keep(index) == isAvailable(index, selected)
    IN  SelectSeq(indices, keep)

\* the three cases drawResults tells apart for the cell at `index`
selectionState(index, selected, current) ==
    IF index = current THEN "CurrentlySelected"
    ELSE IF index \in selected THEN "PreviouslySelected"
    ELSE "Available"

\* the style drawResults gives the cell at `index`
cellStyle(index, cl) ==
    LET state == selectionState(index, cl.selectedCells, cl.currentSelection)
    IN  IF state = "CurrentlySelected"
        THEN [strokeStyle |-> "#00FF00", lineWidth |-> 4]
        ELSE IF state = "PreviouslySelected"
             THEN [strokeStyle |-> "#0088FF", lineWidth |-> 2]
             ELSE [strokeStyle |-> "#666666", lineWidth |-> 1]

\* what drawResults, called in a render with closure cl, paints over the image
drawResults(cl) ==
    [k \in 1..Len(cl.gridCells) |->
        LET index == k - 1
            cell  == cl.gridCells[k]
            style == cellStyle(index, cl)
        IN  [x |-> cell.x, y |-> cell.y, width |-> cell.width, height |-> cell.height,
             strokeStyle |-> style.strokeStyle, lineWidth |-> style.lineWidth,
             fillStyle |-> IF index \in cl.selectedCells THEN "#0088FF" ELSE "#666666",
             label |-> index + 1]]

\* the updates selectRandomParticipant queues once it has chosen selectedIndex
selectedAfterDraw_replace(prev, selectedIndex) == {selectedIndex}
selectedAfterDraw(prev, selectedIndex) == prev \cup {selectedIndex}

\* the values resetSelections sets
resetState_keepCurrent(cur) == [selectedCells |-> {}, currentSelection |-> cur]
resetState(cur) == [selectedCells |-> {}, currentSelection |-> Null]

\* disabled={selectedCells.size === gridCells.length}, inside gridCells.length > 0 && (...)
drawEnabled == Len(gridCells) > 0 /\ Cardinality(selectedCells) # Len(gridCells)
\* disabled={selectedCells.size === 0}
resetEnabled == Len(gridCells) > 0 /\ Cardinality(selectedCells) # 0

-----------------------------------------------------------------------------
(* Actions of the component *)

\* the messages of one processImage run on `picture`
processLog(picture) ==
    << <<"Starting image processing">>,
       <<"Image dimensions", picture.width, picture.height>>,
       <<"Drew image to canvas">> >>
    \o detectEdges(picture).log
    \o << <<"Detected grid cells", Len(detectEdges(picture).cells)>> >>

\* processImage, created in the render with closure cl, run on the loaded image
processImage(cl, before) ==
    LET picture == Pictures[imageUrl]
        cells   == detectEdges(picture).cells
    IN  /\ Len(debugInfo) + Len(before) + Len(processLog(picture)) <= MaxLog
        /\ gridCells' = cells
        /\ debugInfo' = debugInfo \o before \o processLog(picture)
        /\ canvas' = drawResults(cl)
        /\ isProcessing' = FALSE
        /\ lastOp' = [op |-> "detect", result |-> Len(cells)]
        /\ fresh' = (selectedCells = {})
        /\ UNCHANGED <<selectedCells, currentSelection, drawnSinceReset>>

\* ImageUploader's setImage: a new imageUrl reaches ImageProcessor, which
\* renders (the <img> starts loading it) and schedules the imageUrl effect.
setImage(url) ==
    /\ ~effect.bound
    /\ url # imageUrl
    /\ imageUrl' = url
    /\ loading' = TRUE
    /\ effect' = Closure
    /\ lastOp' = [op |-> "image", result |-> url]
    /\ UNCHANGED <<onload, gridCells, selectedCells, currentSelection, isProcessing,
                   debugInfo, canvas, drawnSinceReset, fresh>>

\* the useEffect([imageUrl]) body
imageEffect ==
    /\ effect.bound
    /\ effect' = NoClosure
    /\ IF ~loading
       THEN \* imageRef.current.complete
            /\ processImage(effect, << <<"Image URL received">>,
                                       <<"Image already loaded">> >>)
            /\ UNCHANGED <<imageUrl, loading, onload>>
       ELSE /\ Len(debugInfo) + 2 <= MaxLog
            /\ onload' = effect
            /\ debugInfo' = debugInfo \o << <<"Image URL received">>,
                                            <<"Setting up image load handler">> >>
            /\ lastOp' = [op |-> "effect", result |-> imageUrl]
            /\ UNCHANGED <<imageUrl, loading, gridCells, selectedCells, currentSelection,
                           isProcessing, canvas, drawnSinceReset, fresh>>

\* the <img> finishes loading: its load event runs the onload handler, if one is set
imageLoaded ==
    /\ loading
    /\ loading' = FALSE
    /\ IF onload.bound
       THEN /\ processImage(onload, << <<"Image loaded">> >>)
            /\ UNCHANGED <<imageUrl, effect, onload>>
       ELSE /\ lastOp' = [op |-> "load", result |-> imageUrl]
            /\ UNCHANGED <<imageUrl, effect, onload, gridCells, selectedCells,
                           currentSelection, isProcessing, debugInfo, canvas,
                           drawnSinceReset, fresh>>

\* the success branch of selectRandomParticipant with Math.random() giving randomIndex
drawSelects(randomIndex) ==
    LET available     == availableCells(gridCells, selectedCells)
        selectedIndex == available[randomIndex + 1]
    IN  /\ Len(available) # 0
        /\ randomIndex \in 0..(Len(available) - 1)
        /\ currentSelection' = selectedIndex
        /\ selectedCells' = selectedAfterDraw(selectedCells, selectedIndex)
        /\ canvas' = drawResults(Closure)
        /\ lastOp' = [op |-> "draw", result |-> selectedIndex]
        /\ drawnSinceReset' = Append(drawnSinceReset, selectedIndex)
        /\ UNCHANGED <<gridCells, debugInfo, fresh>>

\* the early return of selectRandomParticipant
drawNoneAvailable_reset ==
    /\ Len(availableCells(gridCells, selectedCells)) = 0
    /\ Len(debugInfo) + 1 <= MaxLog
    /\ debugInfo' = Append(debugInfo, <<"All participants have been selected">>)
    /\ selectedCells' = {}
    /\ currentSelection' = Null
    /\ lastOp' = [op |-> "draw", result |-> Null]
    /\ UNCHANGED <<gridCells, canvas, drawnSinceReset, fresh>>
drawNoneAvailable ==
    /\ Len(availableCells(gridCells, selectedCells)) = 0
    /\ Len(debugInfo) + 1 <= MaxLog
    /\ debugInfo' = Append(debugInfo, <<"All participants have been selected">>)
    /\ lastOp' = [op |-> "draw", result |-> Null]
    /\ UNCHANGED <<gridCells, selectedCells, currentSelection, canvas,
                   drawnSinceReset, fresh>>

\* a click on "Select Random Participant"
selectRandomParticipant ==
    /\ ~effect.bound
    /\ drawEnabled
    /\ \/ \E randomIndex \in 0..(Len(gridCells) - 1) : drawSelects(randomIndex)
       \/ drawNoneAvailable
    /\ UNCHANGED <<imageUrl, loading, effect, onload, isProcessing>>

\* a click on "Reset Selections"
resetSelections ==
    /\ ~effect.bound
    /\ resetEnabled
    /\ selectedCells' = resetState(currentSelection).selectedCells
    /\ currentSelection' = resetState(currentSelection).currentSelection
    /\ canvas' = drawResults(Closure)
    /\ lastOp' = [op |-> "reset", result |-> Cardinality(selectedCells)]
    /\ drawnSinceReset' = <<>>
    /\ fresh' = FALSE
    /\ UNCHANGED <<imageUrl, loading, effect, onload, gridCells, isProcessing, debugInfo>>

-----------------------------------------------------------------------------
(* Specification of the component *)

GroupIdle ==
    /\ points = <<>>
    /\ threshold = EdgeProximity
    /\ grouped = <<>>
    /\ regrouped = <<>>
    /\ phase = "idle"

UiInit ==
    /\ imageUrl = 0
    /\ loading = FALSE
    /\ effect = NoClosure
    /\ onload = NoClosure
    /\ gridCells = <<>>
    /\ selectedCells = {}
    /\ currentSelection = Null
    /\ isProcessing = FALSE
    /\ debugInfo = <<>>
    /\ canvas = <<>>
    /\ lastOp = [op |-> "mount", result |-> Null]
    /\ drawnSinceReset = <<>>
    /\ fresh = FALSE

DetectIdle ==
    /\ imgWidth = 0
    /\ imgHeight = 0
    /\ imgData = <<>>
    /\ horizontalEdges = {}
    /\ verticalEdges = {}
    /\ hLines = <<>>
    /\ vLines = <<>>
    /\ builtCells = <<>>
    /\ stage = "idle"

BatchIdle ==
    /\ queue = <<>>
    /\ batchDraws = <<>>

\* useState(null) twice and useState(false); "null" stands for a null error
NoImage == [scheme |-> "null"]

NoError == "null"

UploadIdle ==
    /\ image = NoImage
    /\ isDragging = FALSE
    /\ error = NoError
    /\ reading = {}
    /\ submitted = <<>>
    /\ lastUpload = [op |-> "mount"]

Init == UiInit /\ GroupIdle /\ DetectIdle /\ BatchIdle /\ UploadIdle

Next ==
    \/ (\E url \in 1..Len(Pictures) : setImage(url)) /\ UNCHANGED <<groupVars, detectVars, batchVars, uploadVars>>
    \/ imageEffect /\ UNCHANGED <<groupVars, detectVars, batchVars, uploadVars>>
    \/ imageLoaded /\ UNCHANGED <<groupVars, detectVars, batchVars, uploadVars>>
    \/ selectRandomParticipant /\ UNCHANGED <<groupVars, detectVars, batchVars, uploadVars>>
    \/ resetSelections /\ UNCHANGED <<groupVars, detectVars, batchVars, uploadVars>>

Spec == Init /\ [][Next]_vars

-----------------------------------------------------------------------------
(* Specification of groupClosePoints as a function of its arguments *)

StrictlyIncreasing(s) == \A i \in 1..(Len(s) - 1) : s[i] < s[i + 1]

SortedInputs ==
    {s \in UNION {[1..n -> 0..MaxCoord] : n \in 0..MaxPoints} : StrictlyIncreasing(s)}

GroupInit ==
    /\ UiInit
    /\ UploadIdle
    /\ DetectIdle
    /\ BatchIdle
    /\ points \in SortedInputs
    /\ threshold \in 0..MaxThreshold
    /\ grouped = <<>>
    /\ regrouped = <<>>
    /\ phase = "input"

Group ==
    /\ phase = "input"
    /\ grouped' = groupClosePoints(points, threshold)
    /\ phase' = "grouped"
    /\ UNCHANGED <<points, threshold, regrouped>>

Regroup ==
    /\ phase = "grouped"
    /\ regrouped' = groupClosePoints(grouped, threshold)
    /\ phase' = "regrouped"
    /\ UNCHANGED <<points, threshold, grouped>>

GroupNext ==
    \/ Group /\ UNCHANGED <<uiVars, detectVars, batchVars, uploadVars>>
    \/ Regroup /\ UNCHANGED <<uiVars, detectVars, batchVars, uploadVars>>

SpecGroup == GroupInit /\ [][GroupNext]_vars

-----------------------------------------------------------------------------
(* Specification of the edge scan of detectEdges on small pixel buffers *)

\* the colours of the buffers: differences of 100 and of 101 to black
Pixels == {<<0, 0, 0, 255>>, <<100, 0, 0, 255>>, <<101, 0, 0, 255>>}

ScanInit ==
    /\ UiInit
    /\ UploadIdle
    /\ GroupIdle
    /\ BatchIdle
    /\ \E w \in 1..MaxPixels, h \in 1..MaxPixels :
          /\ imgWidth = w
          /\ imgHeight = h
          /\ \/ w * h <= MaxPixels /\ imgData \in [1..(w * h) -> Pixels]
             \/ /\ w <= MaxUniformDim
                /\ h <= MaxUniformDim
                /\ \E colour \in Pixels : imgData = [k \in 1..(w * h) |-> colour]
    /\ horizontalEdges = {}
    /\ verticalEdges = {}
    /\ hLines = <<>>
    /\ vLines = <<>>
    /\ builtCells = <<>>
    /\ stage = "buffer"

\* the two scans fill the Sets horizontalEdges and verticalEdges
ScanEdges ==
    /\ stage = "buffer"
    /\ horizontalEdges' = scanHorizontal(imgData, imgWidth, imgHeight)
    /\ verticalEdges' = scanVertical(imgData, imgWidth, imgHeight)
    /\ stage' = "scanned"
    /\ UNCHANGED <<imgWidth, imgHeight, imgData, hLines, vLines, builtCells>>

\* the rest of detectEdges: sort, group, build the cells
BuildFromEdges ==
    /\ stage = "scanned"
    /\ hLines' = groupClosePoints(sortedArray(horizontalEdges), EdgeProximity)
    /\ vLines' = groupClosePoints(sortedArray(verticalEdges), EdgeProximity)
    /\ builtCells' = detectEdges([width |-> imgWidth, height |-> imgHeight,
                                  hEdges |-> sortedArray(horizontalEdges),
                                  vEdges |-> sortedArray(verticalEdges)]).cells
    /\ stage' = "built"
    /\ UNCHANGED <<imgWidth, imgHeight, imgData, horizontalEdges, verticalEdges>>

ScanNext ==
    \/ ScanEdges /\ UNCHANGED <<uiVars, groupVars, batchVars, uploadVars>>
    \/ BuildFromEdges /\ UNCHANGED <<uiVars, groupVars, batchVars, uploadVars>>

SpecScan == ScanInit /\ [][ScanNext]_vars

-----------------------------------------------------------------------------
(* Specification of the cell construction of detectEdges on grouped lines *)

\* image sizes, and line positions that put cell sizes at 50, 51 and on
\* both sides of 90% of each size
ImageSizes == {100, 160}
LineCoords == {1, 11, 61, 62, 90, 91, 112, 144, 145}

\* what groupClosePoints returns for edges of an image `extent` long:
\* increasing positions inside the image, at least EdgeProximity apart
GroupedLines(extent) ==
    {s \in UNION {[1..n -> LineCoords] : n \in 0..MaxLines} :
        /\ \A i \in 1..Len(s) : s[i] <= extent - 2
        /\ \A i \in 1..(Len(s) - 1) : s[i + 1] - s[i] >= EdgeProximity}

GridInit ==
    /\ UiInit
    /\ UploadIdle
    /\ GroupIdle
    /\ BatchIdle
    /\ imgWidth \in ImageSizes
    /\ imgHeight \in ImageSizes
    /\ imgData = <<>>
    /\ horizontalEdges = {}
    /\ verticalEdges = {}
    /\ hLines \in GroupedLines(imgHeight)
    /\ vLines \in GroupedLines(imgWidth)
    /\ builtCells = <<>>
    /\ stage = "grouped"

\* the loops that create the cells from the intersections
BuildCells ==
    /\ stage = "grouped"
    /\ builtCells' = createCells(hLines, vLines, imgWidth, imgHeight)
    /\ stage' = "built"
    /\ UNCHANGED <<imgWidth, imgHeight, imgData, horizontalEdges, verticalEdges,
                   hLines, vLines>>

GridNext == BuildCells /\ UNCHANGED <<uiVars, groupVars, batchVars, uploadVars>>

SpecGrid == GridInit /\ [][GridNext]_vars

-----------------------------------------------------------------------------
(* Specification of click handlers that share a render                      *)
(*                                                                          *)
(* selectRandomParticipant and resetSelections read gridCells,              *)
(* selectedCells and currentSelection of the render they were created in    *)
(* and queue their updates; here up to MaxPending of them are handled       *)
(* before a render applies the queue (click events dispatched before React  *)
(* has re-rendered, e.g. two dispatched in one task), on the cell list of a *)
(* first detected picture.                                                  *)

\* the component right after the first detection run on picture p
AfterFirstDetection(p) ==
    /\ imageUrl = p
    /\ loading = FALSE
    /\ effect = NoClosure
    /\ onload = [NoClosure EXCEPT !.bound = TRUE]
    /\ gridCells = detectEdges(Pictures[p]).cells
    /\ selectedCells = {}
    /\ currentSelection = Null
    /\ isProcessing = FALSE
    /\ debugInfo = << <<"Image URL received">>, <<"Setting up image load handler">>,
                      <<"Image loaded">> >> \o processLog(Pictures[p])
    /\ canvas = <<>>
    /\ lastOp = [op |-> "detect", result |-> Len(detectEdges(Pictures[p]).cells)]
    /\ drawnSinceReset = <<>>
    /\ fresh = TRUE

BatchInit ==
    /\ \E p \in 1..Len(Pictures) : AfterFirstDetection(p)
    /\ GroupIdle
    /\ DetectIdle
    /\ BatchIdle
    /\ UploadIdle

\* the queued updates applied in order, functional updates to the value so far
RECURSIVE applyUpdates(_, _)
applyUpdates(updates, state) ==
    IF updates = <<>> THEN state
    ELSE LET u == Head(updates)
             next == IF u.cell = "currentSelection"
                     THEN [state EXCEPT !.currentSelection = u.value]
                     ELSE IF u.op = "add"
                          THEN [state EXCEPT !.selectedCells =
                                    selectedAfterDraw(state.selectedCells, u.value)]
                          ELSE [state EXCEPT !.selectedCells = u.value]
         IN  applyUpdates(Tail(updates), next)

\* selectRandomParticipant handled in the current render, its updates queued
queuedDraw ==
    /\ drawEnabled
    /\ Len(queue) < 2 * MaxPending
    /\ LET available == availableCells(gridCells, selectedCells)
       IN  \/ /\ Len(available) = 0
              /\ Len(debugInfo) + 1 <= MaxLog
              /\ debugInfo' = Append(debugInfo, <<"All participants have been selected">>)
              /\ lastOp' = [op |-> "draw", result |-> Null]
              /\ UNCHANGED <<queue, batchDraws, canvas, drawnSinceReset>>
           \/ \E randomIndex \in 0..(Len(available) - 1) :
                 LET selectedIndex == available[randomIndex + 1]
                 IN  /\ queue' = queue \o
                           << [cell |-> "currentSelection", op |-> "set",
                               value |-> selectedIndex],
                              [cell |-> "selectedCells", op |-> "add",
                               value |-> selectedIndex] >>
                     /\ canvas' = drawResults(Closure)
                     /\ batchDraws' = Append(batchDraws, selectedIndex)
                     /\ lastOp' = [op |-> "draw", result |-> selectedIndex]
                     /\ drawnSinceReset' = Append(drawnSinceReset, selectedIndex)
                     /\ UNCHANGED debugInfo
    /\ UNCHANGED <<imageUrl, loading, effect, onload, gridCells, selectedCells,
                   currentSelection, isProcessing, fresh>>

\* resetSelections handled in the current render, its updates queued
queuedReset ==
    /\ resetEnabled
    /\ Len(queue) < 2 * MaxPending
    /\ queue' = queue \o
          << [cell |-> "selectedCells", op |-> "set",
              value |-> resetState(currentSelection).selectedCells],
             [cell |-> "currentSelection", op |-> "set",
              value |-> resetState(currentSelection).currentSelection] >>
    /\ canvas' = drawResults(Closure)
    /\ batchDraws' = <<>>
    /\ lastOp' = [op |-> "reset", result |-> Cardinality(selectedCells)]
    /\ drawnSinceReset' = <<>>
    /\ fresh' = FALSE
    /\ UNCHANGED <<imageUrl, loading, effect, onload, gridCells, selectedCells,
                   currentSelection, isProcessing, debugInfo>>

\* React re-renders: the queued updates become the state the next handlers read
commitRender ==
    /\ queue # <<>>
    /\ LET after == applyUpdates(queue, [selectedCells |-> selectedCells,
                                         currentSelection |-> currentSelection])
       IN  /\ selectedCells' = after.selectedCells
           /\ currentSelection' = after.currentSelection
    /\ queue' = <<>>
    /\ batchDraws' = <<>>
    /\ lastOp' = [op |-> "render", result |-> Len(queue)]
    /\ UNCHANGED <<imageUrl, loading, effect, onload, gridCells, isProcessing,
                   debugInfo, canvas, drawnSinceReset, fresh>>

BatchNext ==
    \/ queuedDraw /\ UNCHANGED <<groupVars, detectVars, uploadVars>>
    \/ queuedReset /\ UNCHANGED <<groupVars, detectVars, uploadVars>>
    \/ commitRender /\ UNCHANGED <<groupVars, detectVars, uploadVars>>

SpecBatch == BatchInit /\ [][BatchNext]_vars

-----------------------------------------------------------------------------
(* Specification of ImageUploader                                           *)
(*                                                                          *)
(* A File is its MIME type, a sequence of characters, and its content.      *)
(* Every accepted file gets a FileReader of its own; the readers complete   *)
(* in any order and each onload publishes its own result with setImage.     *)
(* Reads are taken to succeed.                                              *)

ImagePrefix == <<"i", "m", "a", "g", "e", "/">>

PngType == ImagePrefix \o <<"p", "n", "g">>

GifType == ImagePrefix \o <<"g", "i", "f">>

TextType == <<"t", "e", "x", "t", "/", "p", "l", "a", "i", "n">>

\* a file named image.bin the browser knows no type for
UnknownType == <<>>

Files ==
    { [type |-> PngType, content |-> "A"],
      [type |-> GifType, content |-> "B"],
      [type |-> TextType, content |-> "C"],
      [type |-> UnknownType, content |-> "D"],
      [type |-> <<"i", "m", "a", "g", "e">>, content |-> "E"] }

\* FileList values of a drop or of the file input
FileLists ==
    {<<>>} \cup {<<f>> : f \in Files} \cup {<<f, g>> : f \in Files, g \in Files}

\* String.prototype.startsWith
startsWith(str, prefix) ==
    /\ Len(str) >= Len(prefix)
    /\ SubSeq(str, 1, Len(prefix)) = prefix

\* !file.type.startsWith('image/') is false
fileAccepted(file) == startsWith(file.type, ImagePrefix)

\* the result of readAsDataURL
dataUrl(file) == [scheme |-> "data", mime |-> file.type, data |-> file.content]

ErrorText == "Please upload an image file"

validateAndProcessFile(file, handler) ==
    /\ lastUpload' = [op |-> handler, file |-> file, before |-> image]
    /\ IF ~fileAccepted(file)
       THEN /\ error' = ErrorText
            /\ UNCHANGED <<image, reading, submitted>>
       ELSE /\ Len(submitted) < MaxSubmissions
            /\ error' = NoError
            /\ submitted' = Append(submitted, file)
            /\ reading' = reading \cup {Len(submitted) + 1}
            /\ UNCHANGED image

handleDragOver ==
    /\ isDragging' = TRUE
    /\ lastUpload' = [op |-> "dragover"]
    /\ UNCHANGED <<image, error, reading, submitted>>

handleDragLeave ==
    /\ isDragging' = FALSE
    /\ lastUpload' = [op |-> "dragleave"]
    /\ UNCHANGED <<image, error, reading, submitted>>

handleDrop ==
    \E files \in FileLists :
        /\ isDragging' = FALSE
        /\ IF Len(files) > 0
           THEN validateAndProcessFile(files[1], "drop")
           ELSE /\ lastUpload' = [op |-> "drop"]
                /\ UNCHANGED <<image, error, reading, submitted>>

handleFileSelect ==
    \E files \in FileLists :
        /\ IF Len(files) > 0
           THEN validateAndProcessFile(files[1], "select")
           ELSE /\ lastUpload' = [op |-> "select"]
                /\ UNCHANGED <<image, error, reading, submitted>>
        /\ UNCHANGED isDragging

\* reader.onload of the reader of submission k
readerOnload ==
    \E k \in reading :
        /\ image' = dataUrl(submitted[k])
        /\ reading' = reading \ {k}
        /\ lastUpload' = [op |-> "onload", file |-> submitted[k], before |-> image]
        /\ UNCHANGED <<isDragging, error, submitted>>

UploadInit ==
    /\ UiInit
    /\ GroupIdle
    /\ DetectIdle
    /\ BatchIdle
    /\ UploadIdle

UploadNext ==
    \/ handleDragOver /\ UNCHANGED <<uiVars, groupVars, detectVars, batchVars>>
    \/ handleDragLeave /\ UNCHANGED <<uiVars, groupVars, detectVars, batchVars>>
    \/ handleDrop /\ UNCHANGED <<uiVars, groupVars, detectVars, batchVars>>
    \/ handleFileSelect /\ UNCHANGED <<uiVars, groupVars, detectVars, batchVars>>
    \/ readerOnload /\ UNCHANGED <<uiVars, groupVars, detectVars, batchVars>>

SpecUpload == UploadInit /\ [][UploadNext]_vars

-----------------------------------------------------------------------------
(* Vocabulary of the properties *)

Range(s) == {s[i] : i \in 1..Len(s)}

NoDuplicates(s) == \A i, j \in 1..Len(s) : i # j => s[i] # s[j]

\* every index a cell of some picture, or a stale selection, can have
AllIndices ==
    UNION {0..(Len(detectEdges(Pictures[p]).cells) - 1) : p \in 1..Len(Pictures)}

availableCount == Len(availableCells(gridCells, selectedCells))
selectedCount  == Cardinality(selectedCells)
totalCount     == Len(gridCells)

\* no event of the component is outstanding
Quiescent == ~loading /\ ~effect.bound

-----------------------------------------------------------------------------
(* Properties *)

\* C1 (no-repeat law): the indices returned by successful draws since the
\* last reset are pairwise distinct, so no index is chosen twice without a
\* reset in between; this holds whether or not the cell list was replaced
\* meanwhile, hence in particular on a fixed cell list.
C1_NoRepeat == NoDuplicates(drawnSinceReset)

C1_Witness ==
    /\ lastOp.op = "draw"
    /\ lastOp.result # Null
    /\ Len(drawnSinceReset) >= 3

\* C2 (detection resets the selection), as stated: right after a detection
\* run publishes its cell list, the selected set is empty and the current
\* selection is none.
C2_DetectionResetsSelection ==
    lastOp.op = "detect" => selectedCells = {} /\ currentSelection = Null

\* C3 (selection invariant), as stated: after every draw and every reset,
\* availableCount + selectedCount = totalCount.
C3_SelectionInvariant ==
    lastOp.op \in {"draw", "reset"} => availableCount + selectedCount = totalCount

\* C4, as stated: the size of the selected set never exceeds the number of
\* detected cells.
C4_SelectedWithinTotal == selectedCount <= totalCount

\* C5 (exhaustion): while the cell list of N cells was published with nothing
\* selected and no reset has happened since, the draws made so far returned
\* pairwise distinct indices of 0..N-1 and the selected set is exactly those
\* indices; as long as fewer than N draws were made the next draw finds an
\* available cell (it succeeds), and once N were made they cover 0..N-1 and
\* the next draw finds none available (the NoneAvailable branch).
C5_Exhaustion ==
    fresh =>
        /\ NoDuplicates(drawnSinceReset)
        /\ Range(drawnSinceReset) \subseteq 0..(totalCount - 1)
        /\ selectedCells = Range(drawnSinceReset)
        /\ Len(drawnSinceReset) <= totalCount
        /\ Len(drawnSinceReset) < totalCount => availableCount > 0
        /\ Len(drawnSinceReset) = totalCount =>
              /\ Range(drawnSinceReset) = 0..(totalCount - 1)
              /\ availableCount = 0

C5_Witness ==
    /\ fresh
    /\ totalCount = 3
    /\ Len(drawnSinceReset) = 3
    /\ lastOp.op = "draw"

\* C6 (frame effect of a successful draw): in a step that is a successful
\* draw returning k, cell k was Available before and is CurrentlySelected
\* after; the cell that was CurrentlySelected before, if any, is
\* PreviouslySelected after; every other index keeps its state; the cell list
\* is unchanged.
C6_DrawFrame ==
    [][ (lastOp'.op = "draw" /\ lastOp'.result # Null) =>
          LET k == lastOp'.result
          IN  /\ selectionState(k, selectedCells, currentSelection) = "Available"
              /\ selectionState(k, selectedCells', currentSelection') = "CurrentlySelected"
              /\ k \in selectedCells'
              /\ currentSelection # Null =>
                    selectionState(currentSelection, selectedCells', currentSelection')
                        = "PreviouslySelected"
              /\ \A i \in AllIndices \ {k, currentSelection} :
                    selectionState(i, selectedCells', currentSelection')
                        = selectionState(i, selectedCells, currentSelection)
              /\ gridCells' = gridCells
      ]_vars

C6_Witness ==
    /\ lastOp.op = "draw"
    /\ lastOp.result # Null
    /\ Len(drawnSinceReset) >= 2
    /\ Cardinality(selectedCells) >= 2

\* C7 (reset): a step that is a reset leaves the selected set empty and the
\* current selection none, so that availableCount = totalCount and
\* selectedCount = 0; the cell list is unchanged; and resetting the resulting
\* state again gives that same state.
C7_Reset ==
    [][ lastOp'.op = "reset" =>
          /\ selectedCells' = {}
          /\ currentSelection' = Null
          /\ Len(availableCells(gridCells', selectedCells')) = Len(gridCells')
          /\ Cardinality(selectedCells') = 0
          /\ gridCells' = gridCells
          /\ resetState(currentSelection') =
                [selectedCells |-> selectedCells', currentSelection |-> currentSelection']
      ]_vars

\* three draws followed by a reset
C7_Witness == lastOp = [op |-> "reset", result |-> 3] /\ totalCount = 3

\* C8 (NoneAvailable): a step that is a draw finding no cell available leaves
\* the selected set, the current selection, the cell list and the canvas
\* unchanged and appends exactly one diagnostic message.
C8_NoneAvailable ==
    [][ (lastOp'.op = "draw" /\ lastOp'.result = Null) =>
          /\ availableCount = 0
          /\ selectedCells' = selectedCells
          /\ currentSelection' = currentSelection
          /\ gridCells' = gridCells
          /\ canvas' = canvas
          /\ debugInfo' = Append(debugInfo, <<"All participants have been selected">>)
      ]_vars

C8_Witness == lastOp = [op |-> "draw", result |-> Null]

\* C9 (consistent visual feedback), as stated: whenever a detection run, a
\* successful draw or a reset has completed and no event is pending, the
\* canvas shows every detected cell outlined according to the selection state
\* that results from the operation.
C9_CanvasShowsState ==
    (/\ Quiescent
     /\ \/ lastOp.op \in {"detect", "reset"}
        \/ lastOp.op = "draw" /\ lastOp.result # Null)
    => canvas = drawResults(Closure)

\* C10 (grouping idempotence): grouping the result of groupClosePoints again
\* with the same threshold returns it unchanged.
C10_GroupingIdempotent == phase = "regrouped" => regrouped = grouped

C10_Witness ==
    /\ phase = "regrouped"
    /\ Len(grouped) >= 2
    /\ Len(grouped) < Len(points)
    /\ grouped # points

\* positions (1-based) in pts at which groupClosePoints starts a group
GroupStarts(pts, t) ==
    LET groups == closeGroups(pts, t)
    IN  {1 + Sum([h \in 1..(g - 1) |-> Len(groups[h])]) : g \in 1..Len(groups)}

\* C11 (grouped lines are strictly increasing): for a strictly increasing
\* input the result of groupClosePoints is strictly increasing, hence without
\* duplicates, it has one line per group, and an empty input gives an empty
\* result.
C11_GroupedStrictlyIncreasing ==
    phase \in {"grouped", "regrouped"} =>
        /\ StrictlyIncreasing(grouped)
        /\ NoDuplicates(grouped)
        /\ Len(grouped) = Len(closeGroups(points, threshold))
        /\ points = <<>> => grouped = <<>>

C11_Witness ==
    /\ phase = "grouped"
    /\ Len(grouped) >= 2
    /\ Len(grouped) < Len(points)

\* C12 (tie-break), as stated: a coordinate whose gap to the last element of
\* the current group equals the threshold is appended to the current group,
\* it does not start a new one.
C12_TieContinuesGroup ==
    phase = "grouped" =>
        \A i \in 2..Len(points) :
            points[i] - points[i - 1] = threshold => i \notin GroupStarts(points, threshold)

\* C12 as amended: a coordinate whose gap to the last element of the current
\* group equals the threshold starts a new group; only a gap strictly below
\* the threshold continues the current group.
C12_TieStartsGroup ==
    phase = "grouped" =>
        \A i \in 2..Len(points) :
            /\ points[i] - points[i - 1] = threshold => i \in GroupStarts(points, threshold)
            /\ points[i] - points[i - 1] < threshold => i \notin GroupStarts(points, threshold)

C12_Witness ==
    /\ phase = "grouped"
    /\ \E i \in 2..Len(points) : points[i] - points[i - 1] = threshold
    /\ \E i \in 2..Len(points) : points[i] - points[i - 1] < threshold

\* the rectangle between the adjacent line pairs (i, i + 1) and (j, j + 1)
Candidate(i, j) ==
    [x |-> vLines[j], y |-> hLines[i],
     width |-> vLines[j + 1] - vLines[j], height |-> hLines[i + 1] - hLines[i],
     isParticipant |-> TRUE]

Candidates ==
    {Candidate(i, j) : i \in 1..(Len(hLines) - 1), j \in 1..(Len(vLines) - 1)}

\* C13 (cell size filter): a candidate rectangle is in the returned list if
\* and only if its width and height both exceed 50 and are below 90% of the
\* image width resp. height; the list holds nothing but candidates, each with
\* positive width and height; with fewer than 2 lines in a direction it is
\* empty.
C13_SizeFilter ==
    stage = "built" =>
        /\ \A c \in Candidates :
              c \in Range(builtCells) <=>
                 /\ c.width > 50
                 /\ c.height > 50
                 /\ 10 * c.width < 9 * imgWidth
                 /\ 10 * c.height < 9 * imgHeight
        /\ Range(builtCells) \subseteq Candidates
        /\ \A k \in 1..Len(builtCells) :
              builtCells[k].width > 0 /\ builtCells[k].height > 0
        /\ (Len(hLines) < 2 \/ Len(vLines) < 2) => builtCells = <<>>

C13_Witness ==
    /\ stage = "built"
    /\ builtCells # <<>>
    /\ \E c \in Candidates : c.width = 50 /\ c.height > 50 /\ c \notin Range(builtCells)
    /\ \E c \in Candidates : c.width = 51 /\ c \in Range(builtCells)

\* C14 (row-major order): of two cells of the returned list the earlier one
\* has the smaller y, or the same y and the smaller x, and drawResults labels
\* the cell at 0-based position p with p + 1.
C14_RowMajor ==
    stage = "built" =>
        /\ \A p, q \in 1..Len(builtCells) :
              p < q => \/ builtCells[p].y < builtCells[q].y
                       \/ /\ builtCells[p].y = builtCells[q].y
                          /\ builtCells[p].x < builtCells[q].x
        /\ LET drawn == drawResults([gridCells |-> builtCells, selectedCells |-> {},
                                     currentSelection |-> Null, bound |-> TRUE])
           IN  /\ Len(drawn) = Len(builtCells)
               /\ \A p \in 1..Len(builtCells) :
                     /\ drawn[p].label = (p - 1) + 1
                     /\ drawn[p].x = builtCells[p].x
                     /\ drawn[p].y = builtCells[p].y

C14_Witness ==
    /\ stage = "built"
    /\ Len(builtCells) = 4
    /\ builtCells[1].y = builtCells[2].y
    /\ builtCells[2].y < builtCells[3].y

\* C15 (small buffers), as stated: a buffer whose width or height is below 3
\* gives an empty horizontal and an empty vertical edge set.
C15_SmallBufferNoEdges ==
    (stage \in {"scanned", "built"} /\ (imgWidth < 3 \/ imgHeight < 3)) =>
        horizontalEdges = {} /\ verticalEdges = {}

\* C15 as amended: a buffer whose height is below 3 gives an empty horizontal
\* edge set and a buffer whose width is below 3 an empty vertical edge set
\* (both are empty when both dimensions are below 3); the scan and the rest
\* of the detection run through and return no cell.
C15_SmallBufferEdges ==
    stage \in {"scanned", "built"} =>
        /\ imgHeight < 3 => horizontalEdges = {}
        /\ imgWidth < 3 => verticalEdges = {}
        /\ (stage = "built" /\ (imgWidth < 3 \/ imgHeight < 3)) => builtCells = <<>>

\* a buffer one pixel high in which the scan records a column
C15_Witness ==
    /\ stage = "built"
    /\ imgHeight < 3
    /\ imgWidth >= 3
    /\ verticalEdges # {}
    /\ horizontalEdges = {}

Uniform(data) == \A a, b \in 1..Len(data) : data[a] = data[b]

\* C16 (scenario B): a buffer of one colour has no horizontal and no vertical
\* edge, and detection returns no cell.
C16_UniformNoEdges ==
    (stage \in {"scanned", "built"} /\ Uniform(imgData)) =>
        /\ horizontalEdges = {}
        /\ verticalEdges = {}
        /\ stage = "built" => (hLines = <<>> /\ vLines = <<>> /\ builtCells = <<>>)

C16_Witness ==
    /\ stage = "built"
    /\ Uniform(imgData)
    /\ imgWidth = 5
    /\ imgHeight = 4

\* C18 (enabled draw succeeds), as stated: whenever the draw button is
\* rendered and enabled, a draw finds at least one available cell.
C18_EnabledDrawSucceeds == drawEnabled => availableCount > 0

\* C19 (current selection is valid), as stated: the current selection is
\* none, or a member of the selected set that is an index into the current
\* cell list.
C19_CurrentSelectionValid ==
    \/ currentSelection = Null
    \/ /\ currentSelection \in selectedCells
       /\ 0 <= currentSelection
       /\ currentSelection < totalCount

\* C17 (draws that share a snapshot), as stated: the draws handled against
\* one render never choose the same index, and once their updates are applied
\* the current selection is none or a member of the selected set.
C17_SnapshotDrawsDistinct ==
    /\ NoDuplicates(batchDraws)
    /\ queue = <<>> => (currentSelection = Null \/ currentSelection \in selectedCells)

\* the last handler was given a file
FileSubmitted == lastUpload.op \in {"drop", "select"} /\ "file" \in DOMAIN lastUpload

\* C20 (upload handling), as stated: right after a file that is not an image
\* is dropped or chosen the error is set and the image is the one from
\* before; and when no file read is pending after an accepted image file was
\* the last one submitted, the image is that file's and the error is cleared.
C20_UploadKeepsLatest ==
    /\ (FileSubmitted /\ ~startsWith(lastUpload.file.type, ImagePrefix))
          => (error = ErrorText /\ image = lastUpload.before)
    /\ (reading = {} /\ submitted # <<>>)
          => image = dataUrl(submitted[Len(submitted)])
    /\ (FileSubmitted /\ startsWith(lastUpload.file.type, ImagePrefix))
          => error = NoError

====
